---- MODULE Spec2Model ----
(***************************************************************************)
(* Model of presamples/package_interface.py: the PresamplesPackage facade  *)
(* over one package directory and the ParametersMapping it builds lazily.  *)
(*                                                                         *)
(* The package directory holds datapackage.json (variables manifest and    *)
(* fileState), name-list files and sample files (NameFiles, SampleFiles).  *)
(* Two Python objects, "p" and "q", may be constructed over the directory. *)
(* Every call ends by recording what it returned or raised in `last`.      *)
(***************************************************************************)
EXTENDS Integers, Sequences, FiniteSets, TLC

VARIABLES
    manifest,     \* the JSON document stored in datapackage.json
    fileState,    \* "complete", or "truncated" once opened for writing and not yet dumped
    constructed,  \* constructed[i]: PresamplesPackage.__init__ has returned for object i
    cache,        \* cache[i]: the _parameters attribute of object i (NoAttr: not set)
    pending,      \* pending[i]: <<new>> while a change_seed(new) call of i has not reached line 72
    last          \* the most recent call: object, operation, argument, exception, value

vars == <<manifest, fileState, constructed, cache, pending, last>>

\* ---------------------------------------------------------------- bounds

\* Longest resource list of a manifest.
MaxRes == 3

\* ------------------------------------------------------- the package on disk

Instances == {"p", "q"}

PkgPath == "pkg"

\* Seeds a manifest may carry and change_seed may be called with.
SeedValues == {5, 7}

\* Parameter names looked up through __getitem__ ("w" is in no name list).
Keys == {"x", "y", "z", "w"}

\* Name-list files of the directory: filepath -> ordered list of names.
NameFiles ==
    [f \in {"A.names.json", "B.names.json", "C.names.json"} |->
        CASE f = "A.names.json" -> <<"x", "y">>
          [] f = "B.names.json" -> <<"z">>
          [] OTHER -> <<"y">>]

\* Sample files of the directory: filepath -> 2-D block, a sequence of rows.
SampleFiles ==
    [f \in {"A.samples.npy", "B.samples.npy", "C.samples.npy", "D.samples.npy",
             "E.samples.npy"} |->
        CASE f = "A.samples.npy" -> << <<11, 12>>, <<21, 22>> >>
          [] f = "B.samples.npy" -> << <<31, 32>> >>
          [] f = "C.samples.npy" -> << <<41, 42>> >>
          [] f = "D.samples.npy" -> << <<51, 52>> >>
          [] OTHER -> << <<61, 62>> >>]

\* Resource descriptors. ResD has no "names" entry (the minimal resource of the
\* class docstring); ResC's name list shares "y" with ResA's; the name-list file
\* ResE refers to is not in the directory.
ResA == [names |-> [filepath |-> "A.names.json"], samples |-> [filepath |-> "A.samples.npy"]]
ResB == [names |-> [filepath |-> "B.names.json"], samples |-> [filepath |-> "B.samples.npy"]]
ResC == [names |-> [filepath |-> "C.names.json"], samples |-> [filepath |-> "C.samples.npy"]]
ResD == [samples |-> [filepath |-> "D.samples.npy"]]
ResE == [names |-> [filepath |-> "E.names.json"], samples |-> [filepath |-> "E.samples.npy"]]

Descriptors == {ResA, ResB, ResC, ResD, ResE}

\* Resource lists: one to MaxRes descriptors, each at most once, in any order.
ResourceLists ==
    {s \in UNION {[1..n -> Descriptors] : n \in 1..MaxRes} :
        \A a, b \in DOMAIN s : a # b => s[a] # s[b]}

\* current['seed'] = new
SetSeed(doc, new) ==
    [k \in DOMAIN doc \cup {"seed"} |-> IF k = "seed" THEN new ELSE doc[k]]

\* A manifest without a seed key.
Doc(res) ==
    [name |-> "pkg-name", id |-> "uuid-1", profile |-> "data-package", resources |-> res]

\* The manifests a package directory may hold: "seed" is optional.
Manifests ==
    {Doc(res) : res \in ResourceLists}
        \cup {SetSeed(Doc(res), n) : res \in ResourceLists, n \in SeedValues}

\* ------------------------------------------------------- results of a call

NoAttr == [attr |-> "unset"]
NoValue == "-"

Ok(v) == [exc |-> "none", val |-> v]
Raise(e) == [exc |-> e, val |-> NoValue]

\* The record of a call. Argument and value are kept under the operation (and
\* outcome) they belong to: values of different operations are of different
\* kinds and are never compared with one another.
Call(i, op, arg, r) ==
    [inst |-> i, op |-> op, exc |-> r.exc,
     arg |-> (op :> arg), val |-> (<<op, r.exc>> :> r.val)]

ArgOf(c) == c.arg[c.op]

ValOf(c) == c.val[<<c.op, c.exc>>]

\* ------------------------------------- collaborators (utils.py and array.py)

\* validate_presamples_dirpath(path): the directory holds a well-formed manifest.
validate_presamples_dirpath ==
    IF fileState = "complete" THEN Ok(NoValue) ELSE Raise("InvalidPackageError")

\* check_name_conflicts(name_lists): fails if a name is duplicated across the lists.
RECURSIVE Concat(_)
Concat(lists) ==
    IF lists = <<>> THEN <<>> ELSE Head(lists) \o Concat(Tail(lists))

check_name_conflicts(name_lists) ==
    LET all == Concat(name_lists)
    IN  IF \E a, b \in DOMAIN all : a # b /\ all[a] = all[b]
        THEN Raise("NameConflictError")
        ELSE Ok(NoValue)

\* IrregularPresamplesArray(*filepaths): the blocks stacked along rows, in order.
IrregularPresamplesArray(filepaths) ==
    IF \E a, b \in DOMAIN filepaths :
           Len(SampleFiles[filepaths[a]][1]) # Len(SampleFiles[filepaths[b]][1])
    THEN Raise("ShapeMismatchError")
    ELSE Ok([filepaths |-> filepaths])

\* ipa.sample(index): column `index` (0-based) of every block, concatenated.
sample(ipa, index) ==
    LET rows == Concat([k \in DOMAIN ipa.filepaths |-> SampleFiles[ipa.filepaths[k]]])
    IN  [r \in DOMAIN rows |-> rows[r][index + 1]]

\* ------------------------------------------------------- PresamplesPackage

\* open() with no argument, line 72: the builtin requires `file`.
open_without_file == Raise("TypeError")

\* json.load(open(self.path / "datapackage.json"))
metadata(i) ==
    IF fileState = "complete" THEN Ok(manifest) ELSE Raise("JSONDecodeError")

\* self.metadata[key]
Subscript(md, key) ==
    IF md.exc # "none" THEN md
    ELSE IF key \in DOMAIN md.val THEN Ok(md.val[key]) ELSE Raise("KeyError")

name(i) == Subscript(metadata(i), "name")

seed(i) == Subscript(metadata(i), "seed")

id(i) == Subscript(metadata(i), "id")

\* resources kept from the parameters cache once it exists, instead of re-read.
resources_memoized(i) ==
    IF cache[i] # NoAttr
    THEN Ok([k \in DOMAIN cache[i].ipa.filepaths |->
                CHOOSE d \in Descriptors : d.samples.filepath = cache[i].ipa.filepaths[k]])
    ELSE Subscript(metadata(i), "resources")

resources(i) == Subscript(metadata(i), "resources")

\* len(self.metadata) in place of len(self.resources).
PresamplesPackage_len_of_metadata(i) ==
    LET r == metadata(i) IN IF r.exc # "none" THEN r ELSE Ok(Cardinality(DOMAIN r.val))

\* __len__: len(self.resources)
PresamplesPackage_len(i) ==
    LET r == resources(i) IN IF r.exc # "none" THEN r ELSE Ok(Len(r.val))

\* ------------------------------------------------------- ParametersMapping

\* enumerate(lst): each name with its index within its own list.
Enumerate(lst) == [j \in DOMAIN lst |-> [name |-> lst[j], index |-> j - 1]]

\* for lst in name_lists for index, name in enumerate(lst)
Pairs(name_lists) ==
    Concat([k \in DOMAIN name_lists |-> Enumerate(name_lists[k])])

\* The dict comprehension: a later pair with the same name overwrites an earlier one.
DictOf(pairs) ==
    [n \in {pairs[k].name : k \in DOMAIN pairs} |->
        LET k == CHOOSE k \in DOMAIN pairs :
                     /\ pairs[k].name = n
                     /\ \A j \in DOMAIN pairs : pairs[j].name = n => j <= k
        IN  pairs[k].index]

\* Iteration order of the dict: each name at its first insertion.
RECURSIVE KeyOrder(_, _)
KeyOrder(pairs, seen) ==
    IF pairs = <<>> THEN <<>>
    ELSE IF Head(pairs).name \in seen THEN KeyOrder(Tail(pairs), seen)
    ELSE <<Head(pairs).name>> \o KeyOrder(Tail(pairs), seen \cup {Head(pairs).name})

\* json.load(open(path / obj['names']['filepath'])) gives a list for this resource.
Loadable(obj) ==
    "names" \in DOMAIN obj /\ obj.names.filepath \in DOMAIN NameFiles

\* ParametersMapping.__init__(path, resources, package_name), sample_index=None.
\* gen tells apart the objects one PresamplesPackage builds (object identity).
ParametersMapping_init(path, res, package_name, gen) ==
    IF \E k \in DOMAIN res : ~Loadable(res[k])
    THEN LET k == CHOOSE k \in DOMAIN res :
                      ~Loadable(res[k]) /\ \A j \in 1..(k - 1) : Loadable(res[j])
         IN  IF "names" \notin DOMAIN res[k]
             THEN Raise("KeyError")
             ELSE Raise("FileNotFoundError")
    ELSE
        LET name_lists == [k \in DOMAIN res |-> NameFiles[res[k].names.filepath]]
            conflicts == check_name_conflicts(name_lists)
            pairs == Pairs(name_lists)
            ipa == IrregularPresamplesArray(
                       [k \in DOMAIN res |-> res[k].samples.filepath])
            order == KeyOrder(pairs, {})
        IN  IF conflicts.exc # "none" THEN conflicts
            ELSE IF ipa.exc # "none" THEN ipa
            ELSE Ok([attr |-> "set",
                     gen |-> gen,
                     mapping |-> DictOf(pairs),
                     ipa |-> ipa.val,
                     ids |-> [k \in DOMAIN order |-> <<path, package_name, order[k]>>],
                     index |-> 0])

\* ParametersMapping.__getitem__(key)
ParametersMapping_getitem(obj, key) ==
    IF key \notin DOMAIN obj.mapping THEN Raise("KeyError")
    ELSE Ok(sample(obj.ipa, obj.index)[obj.mapping[key] + 1])

\* parameters without the hasattr test: a new mapping at every access.
parameters_rebuilt(i) ==
    LET res == resources(i)
        nm == name(i)
        gen == IF cache[i] = NoAttr THEN 1 ELSE cache[i].gen + 1
    IN  IF res.exc # "none" THEN res
        ELSE IF nm.exc # "none" THEN nm
        ELSE ParametersMapping_init(PkgPath, res.val, nm.val, gen)

\* The parameters property: the value it returns or the exception it raises.
parameters(i) ==
    IF cache[i] # NoAttr THEN Ok(cache[i])
    ELSE
        LET res == resources(i)
            nm == name(i)
        IN  IF res.exc # "none" THEN res
            ELSE IF nm.exc # "none" THEN nm
            ELSE ParametersMapping_init(PkgPath, res.val, nm.val, 1)

\* ------------------------------------------------------------------ actions

Init ==
    /\ manifest \in Manifests
    /\ fileState = "complete"
    /\ constructed = [i \in Instances |-> FALSE]
    /\ cache = [i \in Instances |-> NoAttr]
    /\ pending = [i \in Instances |-> <<>>]
    /\ last = Call("-", "none", NoValue, Ok(NoValue))

\* PresamplesPackage(path)
New(i) ==
    /\ ~constructed[i]
    /\ LET r == validate_presamples_dirpath
       IN  /\ constructed' = [constructed EXCEPT ![i] = (r.exc = "none")]
           /\ last' = Call(i, "new", NoValue, r)
    /\ UNCHANGED <<manifest, fileState, cache, pending>>

\* Object i exists and no call of it is in progress.
Idle(i) == constructed[i] /\ pending[i] = <<>>

ReadName(i) ==
    /\ constructed[i]
    /\ last' = Call(i, "name", NoValue, name(i))
    /\ UNCHANGED <<manifest, fileState, constructed, cache, pending>>

ReadId(i) ==
    /\ constructed[i]
    /\ last' = Call(i, "id", NoValue, id(i))
    /\ UNCHANGED <<manifest, fileState, constructed, cache, pending>>

ReadSeed(i) ==
    /\ constructed[i]
    /\ last' = Call(i, "seed", NoValue, seed(i))
    /\ UNCHANGED <<manifest, fileState, constructed, cache, pending>>

ReadResources(i) ==
    /\ constructed[i]
    /\ last' = Call(i, "resources", NoValue, resources(i))
    /\ UNCHANGED <<manifest, fileState, constructed, cache, pending>>

CallLen(i) ==
    /\ constructed[i]
    /\ last' = Call(i, "len", NoValue, PresamplesPackage_len(i))
    /\ UNCHANGED <<manifest, fileState, constructed, cache, pending>>

\* P.parameters with the attribute bound before the constructor has returned.
AccessParameters_half_built(i) ==
    /\ Idle(i)
    /\ LET r == parameters(i)
       IN  /\ cache' = [cache EXCEPT ![i] =
                  IF r.exc = "none" THEN r.val ELSE [attr |-> "set", gen |-> 1]]
           /\ last' = Call(i, "parameters", NoValue, r)
    /\ UNCHANGED <<manifest, fileState, constructed, pending>>

\* P.parameters: the attribute is set only when the constructor returned.
AccessParameters(i) ==
    /\ Idle(i)
    /\ LET r == parameters(i)
       IN  /\ cache' = [cache EXCEPT ![i] = IF r.exc = "none" THEN r.val ELSE cache[i]]
           /\ last' = Call(i, "parameters", NoValue, r)
    /\ UNCHANGED <<manifest, fileState, constructed, pending>>

\* mapping[key] on the mapping object i holds.
GetItem(i, key) ==
    /\ Idle(i)
    /\ cache[i] # NoAttr
    /\ last' = Call(i, "getitem", key, ParametersMapping_getitem(cache[i], key))
    /\ UNCHANGED <<manifest, fileState, constructed, cache, pending>>

\* Line 72 opening the manifest in "w" mode: the file is emptied, the load fails.
change_seed_body_opened_for_writing(i, new, opened) ==
    /\ fileState' = "truncated"
    /\ last' = Call(i, "change_seed", new, Raise("UnsupportedOperation"))
    /\ UNCHANGED manifest

\* Lines 72-75 of change_seed, given what line 72's open() gave: on an exception
\* the call ends there; otherwise the document is stored with the new seed.
change_seed_body(i, new, opened) ==
    IF opened.exc # "none"
    THEN /\ last' = Call(i, "change_seed", new, opened)
         /\ UNCHANGED <<manifest, fileState>>
    ELSE /\ manifest' = SetSeed(opened.val, new)
         /\ fileState' = "complete"
         /\ last' = Call(i, "change_seed", new, Ok(NoValue))

\* P.change_seed(new), run to its end.
change_seed(i, new) ==
    /\ Idle(i)
    /\ change_seed_body(i, new, open_without_file)
    /\ UNCHANGED <<constructed, cache, pending>>

\* Another writer replaces datapackage.json by a complete document. One edit
\* stores a seed, one more resource at the end of the list, or the list without
\* its last resource (see Next).
ExternalRewrite(doc) ==
    /\ fileState = "complete"
    /\ doc \in Manifests
    /\ doc # manifest
    /\ manifest' = doc
    /\ last' = Call("-", "external", NoValue, Ok(NoValue))
    /\ UNCHANGED <<fileState, constructed, cache, pending>>

Next ==
    \/ \E i \in Instances : New(i)
    \/ \E i \in Instances : ReadName(i)
    \/ \E i \in Instances : ReadId(i)
    \/ \E i \in Instances : ReadSeed(i)
    \/ \E i \in Instances : ReadResources(i)
    \/ \E i \in Instances : CallLen(i)
    \/ \E i \in Instances : AccessParameters(i)
    \/ \E i \in Instances, key \in Keys : GetItem(i, key)
    \/ \E i \in Instances, n \in SeedValues : change_seed(i, n)
    \/ \E n \in SeedValues : ExternalRewrite(SetSeed(manifest, n))
    \/ \E d \in Descriptors :
           ExternalRewrite([manifest EXCEPT !.resources = Append(@, d)])
    \/ ExternalRewrite([manifest EXCEPT !.resources = SubSeq(@, 1, Len(@) - 1)])

Spec == Init /\ [][Next]_vars

\* ------------------------------------- change_seed interleaved with readers

\* The call P.change_seed(new) is entered.
ChangeSeedEnter(i, new) ==
    /\ Idle(i)
    /\ pending' = [pending EXCEPT ![i] = <<new>>]
    /\ last' = Call(i, "enter change_seed", new, Ok(NoValue))
    /\ UNCHANGED <<manifest, fileState, constructed, cache>>

\* The entered call runs lines 72-75.
ChangeSeedRun(i) ==
    /\ constructed[i]
    /\ pending[i] # <<>>
    /\ change_seed_body(i, pending[i][1], open_without_file)
    /\ pending' = [pending EXCEPT ![i] = <<>>]
    /\ UNCHANGED <<constructed, cache>>

NextInterleaved ==
    \/ \E i \in Instances : New(i)
    \/ \E i \in Instances : ReadName(i)
    \/ \E i \in Instances : ReadId(i)
    \/ \E i \in Instances : ReadSeed(i)
    \/ \E i \in Instances : ReadResources(i)
    \/ \E i \in Instances : CallLen(i)
    \/ \E i \in Instances, n \in SeedValues : ChangeSeedEnter(i, n)
    \/ \E i \in Instances : ChangeSeedRun(i)

SpecInterleaved == Init /\ [][NextInterleaved]_vars

\* -------------------------------------------- vocabulary of the properties

MetaOps == {"name", "id", "seed", "resources"}

Range(seq) == {seq[k] : k \in DOMAIN seq}

\* Positions of the resources of doc that carry a "names" entry.
Named(doc) == {k \in DOMAIN doc.resources : "names" \in DOMAIN doc.resources[k]}

\* Some resource of doc names a name-list file the directory does not hold.
SomeUnreadable(doc) ==
    \E k \in Named(doc) : doc.resources[k].names.filepath \notin DOMAIN NameFiles

NameListAt(doc, k) == NameFiles[doc.resources[k].names.filepath]

\* Every file the resources of doc refer to is in the directory, and two
\* resources' name lists share a name.
NamedConflict(doc) ==
    /\ ~SomeUnreadable(doc)
    /\ \E a, b \in Named(doc) :
           a # b /\ Range(NameListAt(doc, a)) \cap Range(NameListAt(doc, b)) # {}

SomeNameless(doc) == Named(doc) # DOMAIN doc.resources

NamedNames(doc) == UNION {Range(NameListAt(doc, k)) : k \in Named(doc)}

SamplePaths(doc) == [k \in DOMAIN doc.resources |-> doc.resources[k].samples.filepath]

\* Object i holds a mapping built from a resource list the manifest no longer has.
Stale(i) == cache[i] # NoAttr /\ cache[i].ipa.filepaths # SamplePaths(manifest)

\* --------------------------------------------------------------- properties

\* C1: after P.change_seed(n), the manifest's seed is n.
C1_SeedRoundTrip ==
    last.op = "change_seed" => ("seed" \in DOMAIN manifest /\ manifest.seed = ArgOf(last))

\* C2: a built mapping sends the name at position k of the concatenated name lists
\* (0-based) to k, and mapping[name] is row k of the chosen column of the
\* concatenated sample array.
C2_GlobalRowIndex ==
    \A i \in Instances :
        cache[i] # NoAttr =>
            \A k \in DOMAIN cache[i].ids :
                LET n == cache[i].ids[k][3]
                IN  /\ cache[i].mapping[n] = k - 1
                    /\ (last.op = "getitem" /\ last.inst = i /\ ArgOf(last) = n) =>
                           /\ last.exc = "none"
                           /\ ValOf(last) = sample(cache[i].ipa, cache[i].index)[k]

\* C3: once object i holds a mapping, no step changes it, every parameters access
\* of i returns that very object, and a mapping is only ever bound by a parameters
\* access of an object that held none.
C3_ParametersMemoized ==
    [][\A i \in Instances :
          /\ cache[i] # NoAttr =>
                /\ cache'[i] = cache[i]
                /\ (last'.op = "parameters" /\ last'.inst = i) =>
                       (last'.exc = "none" /\ ValOf(last') = cache[i])
          /\ cache'[i] # cache[i] => (last'.op = "parameters" /\ last'.inst = i)
      ]_vars

\* C3 witness: a parameters access has returned the cached mapping although the
\* manifest's resource list is no longer the one it was built from.
C3_Witness ==
    /\ last.op = "parameters"
    /\ last.exc = "none"
    /\ Stale(last.inst)
    /\ ValOf(last) = cache[last.inst]

\* C4: in a package where two resources' name lists share a name, construction and
\* the reads of name, id, seed (when the manifest has one), resources and len
\* succeed, and a parameters access of an object without a mapping fails with the
\* name-conflict error, leaving no mapping.
C4_ConflictRaisedAtFirstAccess ==
    NamedConflict(manifest) =>
        /\ last.op \in {"new", "name", "id", "resources", "len"} => last.exc = "none"
        /\ last.op = "seed" =>
               /\ last.exc # "NameConflictError"
               /\ "seed" \in DOMAIN manifest => last.exc = "none"
        /\ (last.op = "parameters" /\ cache[last.inst] = NoAttr) =>
               last.exc = "NameConflictError"

\* C5: every read of name, id, seed or resources returns what the manifest file
\* holds at that moment (KeyError when the key is not in it).
C5_ReadsAreFresh ==
    last.op \in MetaOps =>
        IF last.op \in DOMAIN manifest
        THEN last.exc = "none" /\ ValOf(last) = manifest[last.op]
        ELSE last.exc = "KeyError"

\* C5 witness: an object that built its mapping from an earlier resource list has
\* read resources after the manifest was changed.
C5_Witness ==
    /\ last.op = "resources"
    /\ last.exc = "none"
    /\ Stale(last.inst)

C7_NamelessResourcesSkipped ==
    [][(/\ last'.op = "parameters"
        /\ cache[last'.inst] = NoAttr
        /\ SomeNameless(manifest)
        /\ ~SomeUnreadable(manifest)
        /\ ~NamedConflict(manifest)) =>
           /\ last'.exc = "none"
           /\ cache'[last'.inst] # NoAttr
           /\ DOMAIN cache'[last'.inst].mapping = NamedNames(manifest)
      ]_vars

\* C8: len(P) is the number of resource descriptors the manifest holds now.
C8_LenIsResourceCount ==
    last.op = "len" => (last.exc = "none" /\ ValOf(last) = Len(manifest.resources))

\* C8 witness: len was called on an object whose cached mapping was built from a
\* resource list of another length.
C8_Witness ==
    /\ last.op = "len"
    /\ cache[last.inst] # NoAttr
    /\ Len(cache[last.inst].ipa.filepaths) # Len(manifest.resources)

\* C9: change_seed(n) leaves the manifest as it was except for seed, which is n
\* afterwards, added when the manifest had none.
C9_OnlySeedChanges ==
    [][last'.op = "change_seed" => manifest' = SetSeed(manifest, ArgOf(last'))]_vars

\* C10: a parameters access of an object without a mapping never changes the
\* manifest; it builds from the manifest as it is now: it binds the mapping it
\* returns when every resource has a names entry, every name-list file is present
\* and no name is shared, and otherwise raises and leaves the object without a
\* mapping.
C10_FailureNotMemoized ==
    [][\A i \in Instances :
          (last'.op = "parameters" /\ last'.inst = i /\ cache[i] = NoAttr) =>
              /\ manifest' = manifest
              /\ IF /\ ~SomeNameless(manifest)
                    /\ ~SomeUnreadable(manifest)
                    /\ ~NamedConflict(manifest)
                 THEN /\ last'.exc = "none"
                      /\ cache'[i] = ValOf(last')
                      /\ DOMAIN cache'[i].mapping = NamedNames(manifest)
                 ELSE /\ last'.exc \in
                             {"KeyError", "FileNotFoundError", "NameConflictError"}
                      /\ cache'[i] = NoAttr
      ]_vars

\* C10 witness: a parameters access has raised and the object holds no mapping,
\* while the other object holds one built before the manifest was changed.
C10_Witness ==
    /\ last.op = "parameters"
    /\ last.exc # "none"
    /\ cache[last.inst] = NoAttr
    /\ \E j \in Instances : Stale(j)

====
